---- MODULE Spec2Model ----
(***************************************************************************)
(* Model of gameutils::EntityManager (include/gameutils/entity.h): the     *)
(* entity table m_entities, the component-type index m_componentTypes,     *)
(* the pending-removal list m_entitiesMarkedForRemoval and the allocation  *)
(* cursor m_nextEntityId, with one action per public member function.      *)
(***************************************************************************)
EXTENDS Integers, Sequences, FiniteSets, TLC

(* ------------------------------ bounds -------------------------------- *)

\* Stands for std::numeric_limits<EntityId>::max(): the id space is 1..MaxEntityId.
MaxEntityId == 2

\* Cap on the length of m_entitiesMarkedForRemoval (the vector is unbounded).
MaxMarked == 2

(* ----------------------------- data model ----------------------------- *)

InvalidEntity == 0

\* Entity ids a caller may pass: the id space and the invalid sentinel.
EntityIds == 0..MaxEntityId

\* std::type_index keys: the component kinds of the test suite.
ComponentTypeIds == {"AnonymousComponent1", "AnonymousComponent2"}

\* The null shared_ptr<Component>.
nullptr == "nullptr"

\* The component objects the caller owns: two of one kind, one of the other.
Components == {"a1", "a2", "b1"}

\* typeid(*pInner): the dynamic type of a component object.
TypeId(pComponent) ==
    IF pComponent \in {"a1", "a2"} THEN "AnonymousComponent1" ELSE "AnonymousComponent2"

\* An empty std::map / std::unordered_map.
EmptyMap == [k \in {} |-> k]

\* map.find(k) != map.end()
Found(map, k) == k \in DOMAIN map

\* map.insert(value_type(k, v)): no effect when the key is already present.
MapInsert(map, k, v) ==
    IF k \in DOMAIN map THEN map
    ELSE [x \in DOMAIN map \cup {k} |-> IF x = k THEN v ELSE map[x]]

\* map.erase(iterator to k)
MapErase(map, k) == [x \in DOMAIN map \ {k} |-> map[x]]

\* The iteration orders an unordered_map over the component kinds may have.
IterationOrders ==
    {<<"AnonymousComponent1", "AnonymousComponent2">>,
     <<"AnonymousComponent2", "AnonymousComponent1">>}

VARIABLES
    m_entities,                  \* EntityId -> (type_index -> component)
    m_componentTypes,            \* type_index -> (EntityId -> component)
    m_entitiesMarkedForRemoval,  \* sequence of EntityId
    m_nextEntityId,              \* where the next id scan starts
    fault,                       \* the std::runtime_error that escaped, or "none"
    destroyedIds,                \* history: the ids a destroyEntity call (purge's
                                 \* included) has returned true for and no createEntity
                                 \* call has returned since
    external,                    \* the components the caller holds a shared_ptr to
    destructorCalls,             \* component -> number of runs of its ~Component()
    view,                        \* the shared_ptr<EntityNodes> the caller holds: the kind
                                 \* it was asked for, and whether it still points to the
                                 \* EntityNodes object that m_componentTypes has for the kind
    marks                        \* history, kept under SpecMarks only: the live entities
                                 \* that markForRemoval has been called for since they
                                 \* were created and since the last purge

vars == <<m_entities, m_componentTypes, m_entitiesMarkedForRemoval, m_nextEntityId,
          fault, destroyedIds, external, destructorCalls, view, marks>>

NoFault == "none"

(* ---------------------------- createEntity ---------------------------- *)

\* createEntity taking the cursor as it is, without scanning for a free id.
FindAvailable_NoScan(entities, entityId) == entityId

\* The while loop of createEntity: scan downward from entityId, wrapping 1 -> max.
RECURSIVE FindAvailable(_, _)
FindAvailable(entities, entityId) ==
    IF Found(entities, entityId)
    THEN FindAvailable(entities, IF entityId = 1 THEN MaxEntityId ELSE entityId - 1)
    ELSE entityId

\* createEntity stepping the cursor down without wrapping from 1 to the maximum.
CreateEntity_NoWrap(entities, nextEntityId) ==
    IF Cardinality(DOMAIN entities) = MaxEntityId
    THEN [ret |-> InvalidEntity, entities |-> entities, nextEntityId |-> nextEntityId]
    ELSE LET entityId == FindAvailable(entities, nextEntityId)
         IN  [ret |-> entityId,
              entities |-> MapInsert(entities, entityId, EmptyMap),
              nextEntityId |-> entityId - 1]

\* createEntity giving up one entity early (size() >= max - 1).
CreateEntity_OneShort(entities, nextEntityId) ==
    IF Cardinality(DOMAIN entities) >= MaxEntityId - 1
    THEN [ret |-> InvalidEntity, entities |-> entities, nextEntityId |-> nextEntityId]
    ELSE LET entityId == FindAvailable(entities, nextEntityId)
         IN  [ret |-> entityId,
              entities |-> MapInsert(entities, entityId, EmptyMap),
              nextEntityId |-> IF entityId = 1 THEN MaxEntityId ELSE entityId - 1]

\* createEntity leaving the cursor where it was.
CreateEntity_CursorStays(entities, nextEntityId) ==
    IF Cardinality(DOMAIN entities) = MaxEntityId
    THEN [ret |-> InvalidEntity, entities |-> entities, nextEntityId |-> nextEntityId]
    ELSE LET entityId == FindAvailable(entities, nextEntityId)
         IN  [ret |-> entityId,
              entities |-> MapInsert(entities, entityId, EmptyMap),
              nextEntityId |-> nextEntityId]

CreateEntity(entities, nextEntityId) ==
    IF Cardinality(DOMAIN entities) = MaxEntityId
    THEN [ret |-> InvalidEntity, entities |-> entities, nextEntityId |-> nextEntityId]
    ELSE LET entityId == FindAvailable(entities, nextEntityId)
         IN  IF Found(entities, entityId)
             THEN [ret |-> InvalidEntity, entities |-> entities,
                   nextEntityId |-> nextEntityId]
             ELSE [ret |-> entityId,
                   entities |-> MapInsert(entities, entityId, EmptyMap),
                   nextEntityId |-> IF entityId = 1 THEN MaxEntityId ELSE entityId - 1]

\* How often the while loop of createEntity has stepped entityId down when it
\* exits, n steps having been made already. Once MaxEntityId steps have been
\* made from an id of 1..MaxEntityId every id has been tried and the scan is
\* back where it began: it never exits, which MaxEntityId + 1 stands for.
RECURSIVE ScanLength(_, _, _)
ScanLength(entities, entityId, n) ==
    IF ~Found(entities, entityId) THEN n
    ELSE IF n = MaxEntityId THEN MaxEntityId + 1
    ELSE ScanLength(entities, IF entityId = 1 THEN MaxEntityId ELSE entityId - 1, n + 1)

\* createEntity entering the scan without the size check before it.
CreateEntityScans_NoSizeCheck(entities, nextEntityId) ==
    ScanLength(entities, nextEntityId, 0)

\* The steps the scan of a createEntity call makes: none when the size check
\* returns before the loop.
CreateEntityScans(entities, nextEntityId) ==
    IF Cardinality(DOMAIN entities) = MaxEntityId THEN 0
    ELSE ScanLength(entities, nextEntityId, 0)

(* ---------------------------- destroyEntity --------------------------- *)

\* The for loop of destroyEntity over the kinds the entity holds, in iteration
\* order: erase the entity's node from each kind's EntityNodes, or throw.
RECURSIVE EraseEntityNodes(_, _, _, _)
EraseEntityNodes(componentTypes, componentNodes, entityId, order) ==
    IF order = <<>> THEN [fault |-> NoFault, componentTypes |-> componentTypes]
    ELSE LET cmType == Head(order)
         IN  IF ~Found(componentNodes, cmType)
             THEN EraseEntityNodes(componentTypes, componentNodes, entityId, Tail(order))
             ELSE IF ~Found(componentTypes, cmType)
             THEN [fault |-> "Could not find expected component type in EM.",
                   componentTypes |-> componentTypes]
             ELSE IF ~Found(componentTypes[cmType], entityId)
             THEN [fault |-> "Could not find expected entity node in EM.",
                   componentTypes |-> componentTypes]
             ELSE EraseEntityNodes(
                      [componentTypes EXCEPT ![cmType] = MapErase(@, entityId)],
                      componentNodes, entityId, Tail(order))

\* destroyEntity erasing the entity but leaving its nodes in the component-type index.
DestroyEntity_KeepNodes(entities, componentTypes, entityId, order) ==
    IF ~Found(entities, entityId)
    THEN [ret |-> FALSE, fault |-> NoFault,
          entities |-> entities, componentTypes |-> componentTypes]
    ELSE [ret |-> TRUE, fault |-> NoFault,
          entities |-> MapErase(entities, entityId), componentTypes |-> componentTypes]

\* destroyEntity reporting success without erasing the entity.
DestroyEntity_KeepEntity(entities, componentTypes, entityId, order) ==
    [ret |-> Found(entities, entityId), fault |-> NoFault,
     entities |-> entities, componentTypes |-> componentTypes]

\* destroyEntity leaving its loop after the first kind the entity holds.
DestroyEntity_FirstKindOnly(entities, componentTypes, entityId, order) ==
    IF ~Found(entities, entityId)
    THEN [ret |-> FALSE, fault |-> NoFault,
          entities |-> entities, componentTypes |-> componentTypes]
    ELSE LET IsHeld(cmType) == Found(entities[entityId], cmType)
             held == SelectSeq(order, IsHeld)
             first == IF held = <<>> THEN <<>> ELSE <<Head(held)>>
             erased == EraseEntityNodes(componentTypes, entities[entityId], entityId, first)
         IN  [ret |-> TRUE, fault |-> NoFault,
              entities |-> MapErase(entities, entityId),
              componentTypes |-> erased.componentTypes]

DestroyEntity(entities, componentTypes, entityId, order) ==
    IF ~Found(entities, entityId)
    THEN [ret |-> FALSE, fault |-> NoFault,
          entities |-> entities, componentTypes |-> componentTypes]
    ELSE LET erased == EraseEntityNodes(componentTypes, entities[entityId], entityId, order)
         IN  IF erased.fault # NoFault
             THEN [ret |-> FALSE, fault |-> erased.fault,
                   entities |-> entities, componentTypes |-> erased.componentTypes]
             ELSE [ret |-> TRUE, fault |-> NoFault,
                   entities |-> MapErase(entities, entityId),
                   componentTypes |-> erased.componentTypes]

(* -------------------------- destroyAllEntities ------------------------ *)

\* destroyAllEntities clearing m_entities only.
DestroyAllEntities_KeepIndex(entities, componentTypes) ==
    [ret |-> TRUE, entities |-> EmptyMap, componentTypes |-> componentTypes]

\* destroyAllEntities clearing m_componentTypes only.
DestroyAllEntities_KeepEntities(entities, componentTypes) ==
    [ret |-> TRUE, entities |-> entities, componentTypes |-> EmptyMap]

DestroyAllEntities(entities, componentTypes) ==
    [ret |-> TRUE, entities |-> EmptyMap, componentTypes |-> EmptyMap]

(* --------------------------- attachComponent -------------------------- *)

\* attachComponent forgetting the component-type index.
AttachComponent_NoIndex(entities, componentTypes, entityId, pComponent) ==
    IF ~Found(entities, entityId) \/ pComponent = nullptr
       \/ Found(entities[entityId], TypeId(pComponent))
    THEN [ret |-> FALSE, entities |-> entities, componentTypes |-> componentTypes]
    ELSE [ret |-> TRUE,
          entities |->
              [entities EXCEPT ![entityId] = MapInsert(@, TypeId(pComponent), pComponent)],
          componentTypes |-> componentTypes]

\* attachComponent without the null check.
AttachComponent_NullAccepted(entities, componentTypes, entityId, pComponent) ==
    IF ~Found(entities, entityId) \/ Found(entities[entityId], TypeId(pComponent))
    THEN [ret |-> FALSE, entities |-> entities, componentTypes |-> componentTypes]
    ELSE LET cmType == TypeId(pComponent)
             types == MapInsert(componentTypes, cmType, EmptyMap)
         IN  [ret |-> TRUE,
              entities |-> [entities EXCEPT ![entityId] = MapInsert(@, cmType, pComponent)],
              componentTypes |->
                  [types EXCEPT ![cmType] = MapInsert(@, entityId, pComponent)]]

\* attachComponent replacing the component of a kind the entity already holds
\* (operator[] in place of insert) before it reports the duplicate.
AttachComponent_ReplaceOnDuplicate(entities, componentTypes, entityId, pComponent) ==
    IF ~Found(entities, entityId) \/ pComponent = nullptr
    THEN [ret |-> FALSE, entities |-> entities, componentTypes |-> componentTypes]
    ELSE LET cmType == TypeId(pComponent)
             types == MapInsert(componentTypes, cmType, EmptyMap)
         IN  [ret |-> ~Found(entities[entityId], cmType),
              entities |->
                  [entities EXCEPT ![entityId] =
                       [t \in DOMAIN @ \cup {cmType} |->
                            IF t = cmType THEN pComponent ELSE @[t]]],
              componentTypes |->
                  [types EXCEPT ![cmType] =
                       [e \in DOMAIN @ \cup {entityId} |->
                            IF e = entityId THEN pComponent ELSE @[e]]]]

\* attachComponent replacing the entity's whole component-node map by the new node.
AttachComponent_ClobberNodes(entities, componentTypes, entityId, pComponent) ==
    IF ~Found(entities, entityId) \/ pComponent = nullptr
       \/ Found(entities[entityId], TypeId(pComponent))
    THEN [ret |-> FALSE, entities |-> entities, componentTypes |-> componentTypes]
    ELSE LET cmType == TypeId(pComponent)
             types == MapInsert(componentTypes, cmType, EmptyMap)
         IN  [ret |-> TRUE,
              entities |->
                  [entities EXCEPT ![entityId] = MapInsert(EmptyMap, cmType, pComponent)],
              componentTypes |->
                  [types EXCEPT ![cmType] = MapInsert(@, entityId, pComponent)]]

\* attachComponent keeping one component per entity: the nodes the entity has
\* of other kinds are dropped from its ComponentNodes.
AttachComponent_SingleSlot(entities, componentTypes, entityId, pComponent) ==
    LET unchanged(r) == [ret |-> r, entities |-> entities, componentTypes |-> componentTypes]
    IN  IF ~Found(entities, entityId) THEN unchanged(FALSE)
        ELSE IF pComponent = nullptr THEN unchanged(FALSE)
        ELSE LET cmType == TypeId(pComponent)
                 cmNodes == entities[entityId]
             IN  IF Found(cmNodes, cmType) THEN unchanged(FALSE)
                 ELSE LET types == IF Found(componentTypes, cmType) THEN componentTypes
                                   ELSE MapInsert(componentTypes, cmType, EmptyMap)
                      IN  [ret |-> TRUE,
                           entities |->
                               [entities EXCEPT
                                    ![entityId] = MapInsert(EmptyMap, cmType, pComponent)],
                           componentTypes |->
                               [types EXCEPT ![cmType] = MapInsert(@, entityId, pComponent)]]

AttachComponent(entities, componentTypes, entityId, pComponent) ==
    LET unchanged(r) == [ret |-> r, entities |-> entities, componentTypes |-> componentTypes]
    IN  IF ~Found(entities, entityId) THEN unchanged(FALSE)
        ELSE IF pComponent = nullptr THEN unchanged(FALSE)
        ELSE LET cmType == TypeId(pComponent)
                 cmNodes == entities[entityId]
             IN  IF Found(cmNodes, cmType) THEN unchanged(FALSE)
                 ELSE LET types == IF Found(componentTypes, cmType) THEN componentTypes
                                   ELSE MapInsert(componentTypes, cmType, EmptyMap)
                      IN  [ret |-> TRUE,
                           entities |->
                               [entities EXCEPT ![entityId] = MapInsert(@, cmType, pComponent)],
                           componentTypes |->
                               [types EXCEPT ![cmType] = MapInsert(@, entityId, pComponent)]]

(* --------------------------- detachComponent -------------------------- *)

\* detachComponent erasing the entity's node only, not the one in the index.
DetachComponent_KeepNode(entities, componentTypes, entityId, cmType) ==
    IF ~Found(entities, entityId) \/ ~Found(entities[entityId], cmType)
    THEN [ret |-> FALSE, fault |-> NoFault,
          entities |-> entities, componentTypes |-> componentTypes]
    ELSE [ret |-> TRUE, fault |-> NoFault,
          entities |-> [entities EXCEPT ![entityId] = MapErase(@, cmType)],
          componentTypes |-> componentTypes]

\* detachComponent erasing the kind's EntityNodes from the index once it is empty.
DetachComponent_DropEmptyNodes(entities, componentTypes, entityId, cmType) ==
    IF ~Found(entities, entityId) \/ ~Found(entities[entityId], cmType)
    THEN [ret |-> FALSE, fault |-> NoFault,
          entities |-> entities, componentTypes |-> componentTypes]
    ELSE LET nodes == MapErase(componentTypes[cmType], entityId)
         IN  [ret |-> TRUE, fault |-> NoFault,
              entities |-> [entities EXCEPT ![entityId] = MapErase(@, cmType)],
              componentTypes |->
                  IF nodes = EmptyMap THEN MapErase(componentTypes, cmType)
                  ELSE [componentTypes EXCEPT ![cmType] = nodes]]

\* detachComponent clearing all the entity's component nodes (clear for erase).
DetachComponent_ClearNodes(entities, componentTypes, entityId, cmType) ==
    IF ~Found(entities, entityId) \/ ~Found(entities[entityId], cmType)
    THEN [ret |-> FALSE, fault |-> NoFault,
          entities |-> entities, componentTypes |-> componentTypes]
    ELSE [ret |-> TRUE, fault |-> NoFault,
          entities |-> [entities EXCEPT ![entityId] = EmptyMap],
          componentTypes |->
              [componentTypes EXCEPT ![cmType] = MapErase(@, entityId)]]

DetachComponent(entities, componentTypes, entityId, cmType) ==
    LET unchanged(r) == [ret |-> r, fault |-> NoFault,
                         entities |-> entities, componentTypes |-> componentTypes]
    IN  IF ~Found(entities, entityId) THEN unchanged(FALSE)
        ELSE IF ~Found(entities[entityId], cmType) THEN unchanged(FALSE)
        ELSE LET erased == [entities EXCEPT ![entityId] = MapErase(@, cmType)]
             IN  IF ~Found(componentTypes, cmType)
                 THEN [ret |-> FALSE, fault |-> "Missing component in EM.",
                       entities |-> erased, componentTypes |-> componentTypes]
                 ELSE IF ~Found(componentTypes[cmType], entityId)
                 THEN [ret |-> FALSE, fault |-> "Missing entity node for component in EM.",
                       entities |-> erased, componentTypes |-> componentTypes]
                 ELSE [ret |-> TRUE, fault |-> NoFault,
                       entities |-> erased,
                       componentTypes |->
                           [componentTypes EXCEPT ![cmType] = MapErase(@, entityId)]]

(* ---------------------- getComponent, getEntityNodes ------------------ *)

\* getComponent returning whichever component the entity holds, of any kind.
GetComponent_AnyKind(entities, entityId, cmType) ==
    IF ~Found(entities, entityId) \/ entities[entityId] = EmptyMap THEN nullptr
    ELSE entities[entityId][CHOOSE t \in DOMAIN entities[entityId] : TRUE]

GetComponent(entities, entityId, cmType) ==
    IF ~Found(entities, entityId) THEN nullptr
    ELSE IF ~Found(entities[entityId], cmType) THEN nullptr
    ELSE entities[entityId][cmType]

\* ret is the EntityNodes map the returned shared_ptr points to.
GetEntityNodes(componentTypes, cmType) ==
    IF ~Found(componentTypes, cmType)
    THEN LET types == MapInsert(componentTypes, cmType, EmptyMap)
         IN  [ret |-> types[cmType], componentTypes |-> types]
    ELSE [ret |-> componentTypes[cmType], componentTypes |-> componentTypes]

(* ------------------------ markForRemoval, purge ----------------------- *)

\* markForRemoval skipping an id that is already in the list.
MarkForRemoval_Dedup(entities, marked, entityId) ==
    IF Found(entities, entityId) /\ \A i \in DOMAIN marked : marked[i] # entityId
    THEN Append(marked, entityId) ELSE marked

\* markForRemoval moving an id that is already in the list to its end.
MarkForRemoval_MoveToBack(entities, marked, entityId) ==
    IF Found(entities, entityId)
    THEN LET IsOther(id) == id # entityId
         IN  Append(SelectSeq(marked, IsOther), entityId)
    ELSE marked

MarkForRemoval(entities, marked, entityId) ==
    IF Found(entities, entityId) THEN Append(marked, entityId) ELSE marked

\* The loop of purge giving up at the first destroyEntity call that returns false.
RECURSIVE PurgeLoop_StopAtFalse(_, _, _, _, _)
PurgeLoop_StopAtFalse(entities, componentTypes, pending, order, rets) ==
    IF pending = <<>>
    THEN [fault |-> NoFault, entities |-> entities,
          componentTypes |-> componentTypes, rets |-> rets]
    ELSE LET d == DestroyEntity(entities, componentTypes, Head(pending), order)
         IN  IF ~d.ret
             THEN [fault |-> d.fault, entities |-> d.entities,
                   componentTypes |-> d.componentTypes,
                   rets |-> rets \o [i \in 1..Len(pending) |-> FALSE]]
             ELSE PurgeLoop_StopAtFalse(d.entities, d.componentTypes, Tail(pending),
                                        order, Append(rets, d.ret))

\* The for loop of purge: destroyEntity on each pending id in order; a throw ends it.
\* rets collects the (discarded) results of the destroyEntity calls.
RECURSIVE PurgeLoop(_, _, _, _, _)
PurgeLoop(entities, componentTypes, pending, order, rets) ==
    IF pending = <<>>
    THEN [fault |-> NoFault, entities |-> entities,
          componentTypes |-> componentTypes, rets |-> rets]
    ELSE LET d == DestroyEntity(entities, componentTypes, Head(pending), order)
         IN  IF d.fault # NoFault
             THEN [fault |-> d.fault, entities |-> d.entities,
                   componentTypes |-> d.componentTypes, rets |-> rets]
             ELSE PurgeLoop(d.entities, d.componentTypes, Tail(pending), order,
                            Append(rets, d.ret))

\* purge with the loop that gives up at the first false result.
Purge_StopAtFalse(entities, componentTypes, marked, order) ==
    LET p == PurgeLoop_StopAtFalse(entities, componentTypes, marked, order, <<>>)
    IN  [fault |-> p.fault, entities |-> p.entities, componentTypes |-> p.componentTypes,
         marked |-> marked, rets |-> p.rets]

\* purge destroying the first pending id only.
Purge_FirstOnly(entities, componentTypes, marked, order) ==
    LET first == IF marked = <<>> THEN <<>> ELSE <<Head(marked)>>
        p == PurgeLoop(entities, componentTypes, first, order, <<>>)
    IN  [fault |-> p.fault, entities |-> p.entities, componentTypes |-> p.componentTypes,
         marked |-> marked, rets |-> p.rets]

Purge(entities, componentTypes, marked, order) ==
    LET p == PurgeLoop(entities, componentTypes, marked, order, <<>>)
    IN  [fault |-> p.fault, entities |-> p.entities, componentTypes |-> p.componentTypes,
         marked |-> marked, rets |-> p.rets]

(* ------------------------- shared_ptr<Component> ---------------------- *)

\* The keys of a nested map whose node is the component c.
NodesOf(map, c) ==
    UNION {{<<k, j>> : j \in {x \in DOMAIN map[k] : map[k][x] = c}} : k \in DOMAIN map}

\* use_count() of the component c: the ComponentNodes entries and the EntityNodes
\* entries that hold it, and the caller's own pointer.
UseCount(entities, componentTypes, held, c) ==
    Cardinality(NodesOf(entities, c)) + Cardinality(NodesOf(componentTypes, c))
        + (IF c \in held THEN 1 ELSE 0)

\* The destructor of a component runs when its use_count drops to zero.
Destructed(entities, componentTypes, held, c) ==
    /\ c \notin held
    /\ UseCount(entities, componentTypes, held, c) = 0
    /\ UseCount(m_entities, m_componentTypes, external, c) > 0

\* The caller's pointers are held' after the step; components nobody holds any
\* more are destructed.
SharedPtrs(held) ==
    /\ external' = held
    /\ destructorCalls' =
           [c \in Components |->
                IF Destructed(m_entities', m_componentTypes', held, c)
                THEN destructorCalls[c] + 1 ELSE destructorCalls[c]]

(* ------------------------ shared_ptr<EntityNodes> --------------------- *)

\* The caller holds no view.
NoView == [cmType |-> "none", shared |-> FALSE]

\* The pointer getEntityNodes returns: to the object m_componentTypes has for cmType.
ViewOf(cmType) == [cmType |-> cmType, shared |-> TRUE]

\* A view the caller holds keeps alive the EntityNodes object it points to; once
\* the entry of its kind is erased from m_componentTypes that object is no longer
\* the registry's, and an entry made later for the kind is another object.
ViewFollows ==
    view' = IF view.shared /\ ~Found(m_componentTypes', view.cmType)
            THEN [view EXCEPT !.shared = FALSE]
            ELSE view

(* ---------------------------- removal marks --------------------------- *)

\* No history of the marks is kept.
NoMarks == [recorded |-> FALSE, ids |-> {}]

\* The history of the marks when it is kept: ids are the marked entities after
\* the step.
MarksFollow(ids) ==
    marks' = IF marks.recorded THEN [marks EXCEPT !.ids = ids] ELSE marks

(* ------------------------------- actions ------------------------------ *)
(* One action per public member function; the caller passes any arguments.  *)
(* A call's return value is the ret field of the operator the action uses.  *)

Init ==
    /\ m_entities = EmptyMap
    /\ m_componentTypes = EmptyMap
    /\ m_entitiesMarkedForRemoval = <<>>
    /\ m_nextEntityId = MaxEntityId
    /\ fault = NoFault
    /\ destroyedIds = {}
    /\ external = Components
    /\ destructorCalls = [c \in Components |-> 0]
    /\ view = NoView
    /\ marks = NoMarks

createEntity ==
    /\ fault = NoFault
    /\ LET r == CreateEntity(m_entities, m_nextEntityId)
       IN  /\ m_entities' = r.entities
           /\ m_nextEntityId' = r.nextEntityId
           /\ destroyedIds' = destroyedIds \ {r.ret}
           /\ MarksFollow(marks.ids \ {r.ret})
    /\ UNCHANGED <<m_componentTypes, m_entitiesMarkedForRemoval, fault,
                   external, destructorCalls, view>>

destroyEntity(entityId) ==
    /\ fault = NoFault
    /\ \E order \in IterationOrders :
         LET r == DestroyEntity(m_entities, m_componentTypes, entityId, order)
         IN  /\ m_entities' = r.entities
             /\ m_componentTypes' = r.componentTypes
             /\ fault' = r.fault
             /\ destroyedIds' = IF r.ret THEN destroyedIds \cup {entityId}
                                         ELSE destroyedIds
             /\ MarksFollow(marks.ids \cap DOMAIN r.entities)
    /\ SharedPtrs(external)
    /\ ViewFollows
    /\ UNCHANGED <<m_entitiesMarkedForRemoval, m_nextEntityId>>

destroyAllEntities ==
    /\ fault = NoFault
    /\ LET r == DestroyAllEntities(m_entities, m_componentTypes)
       IN  /\ m_entities' = r.entities
           /\ m_componentTypes' = r.componentTypes
    /\ SharedPtrs(external)
    /\ ViewFollows
    /\ MarksFollow({})
    /\ UNCHANGED <<m_entitiesMarkedForRemoval, m_nextEntityId, fault, destroyedIds>>

\* The caller passes a pointer it holds, or a null pointer.
attachComponent(entityId, pComponent) ==
    /\ fault = NoFault
    /\ pComponent \in external \cup {nullptr}
    /\ LET r == AttachComponent(m_entities, m_componentTypes, entityId, pComponent)
       IN  /\ m_entities' = r.entities
           /\ m_componentTypes' = r.componentTypes
    /\ ViewFollows
    /\ UNCHANGED <<m_entitiesMarkedForRemoval, m_nextEntityId, fault, destroyedIds,
                   external, destructorCalls, marks>>

detachComponent(entityId, cmType) ==
    /\ fault = NoFault
    /\ LET r == DetachComponent(m_entities, m_componentTypes, entityId, cmType)
       IN  /\ m_entities' = r.entities
           /\ m_componentTypes' = r.componentTypes
           /\ fault' = r.fault
    /\ SharedPtrs(external)
    /\ ViewFollows
    /\ UNCHANGED <<m_entitiesMarkedForRemoval, m_nextEntityId, destroyedIds, marks>>

\* Returns GetComponent(m_entities, entityId, cmType): the registry is only read,
\* and the caller then holds the pointer returned.
getComponent(entityId, cmType) ==
    /\ fault = NoFault
    /\ external' = external \cup ({GetComponent(m_entities, entityId, cmType)} \ {nullptr})
    /\ UNCHANGED <<m_entities, m_componentTypes, m_entitiesMarkedForRemoval,
                   m_nextEntityId, fault, destroyedIds, destructorCalls, view, marks>>

\* The caller keeps the pointer returned, in place of the view it held, or drops it.
getEntityNodes(cmType, keep) ==
    /\ fault = NoFault
    /\ m_componentTypes' = GetEntityNodes(m_componentTypes, cmType).componentTypes
    /\ view' = IF keep THEN ViewOf(cmType) ELSE view
    /\ UNCHANGED <<m_entities, m_entitiesMarkedForRemoval, m_nextEntityId, fault,
                   destroyedIds, external, destructorCalls, marks>>

markForRemoval(entityId) ==
    /\ fault = NoFault
    /\ Len(m_entitiesMarkedForRemoval) < MaxMarked
    /\ m_entitiesMarkedForRemoval' =
           MarkForRemoval(m_entities, m_entitiesMarkedForRemoval, entityId)
    /\ MarksFollow(IF Found(m_entities, entityId) THEN marks.ids \cup {entityId}
                   ELSE marks.ids)
    /\ UNCHANGED <<m_entities, m_componentTypes, m_nextEntityId, fault, destroyedIds,
                   external, destructorCalls, view>>

purge ==
    /\ fault = NoFault
    /\ \E order \in IterationOrders :
         LET r == Purge(m_entities, m_componentTypes, m_entitiesMarkedForRemoval, order)
         IN  /\ m_entities' = r.entities
             /\ m_componentTypes' = r.componentTypes
             /\ m_entitiesMarkedForRemoval' = r.marked
             /\ fault' = r.fault
             /\ destroyedIds' = destroyedIds \cup (DOMAIN m_entities \ DOMAIN r.entities)
             /\ MarksFollow({})
    /\ SharedPtrs(external)
    /\ ViewFollows
    /\ UNCHANGED m_nextEntityId

\* The caller lets go of its pointer to pComponent (shared_ptr::reset).
reset(pComponent) ==
    /\ fault = NoFault
    /\ pComponent \in external
    /\ UNCHANGED <<m_entities, m_componentTypes, m_entitiesMarkedForRemoval,
                   m_nextEntityId, fault, destroyedIds, view, marks>>
    /\ SharedPtrs(external \ {pComponent})

Next ==
    \/ createEntity
    \/ \E entityId \in EntityIds : destroyEntity(entityId)
    \/ destroyAllEntities
    \/ \E entityId \in EntityIds, pComponent \in Components \cup {nullptr} :
           attachComponent(entityId, pComponent)
    \/ \E entityId \in EntityIds, cmType \in ComponentTypeIds :
           detachComponent(entityId, cmType)
    \/ \E entityId \in EntityIds, cmType \in ComponentTypeIds :
           getComponent(entityId, cmType)
    \/ \E cmType \in ComponentTypeIds : getEntityNodes(cmType, FALSE)
    \/ \E entityId \in EntityIds : markForRemoval(entityId)
    \/ purge

\* The caller keeps every component pointer it made.
Spec == Init /\ [][Next]_vars

\* The pointers the caller lets go of: one component of each kind, one of them
\* of the kind that has a second component the caller keeps.
ResetComponents == {"a1", "b1"}

\* The caller also lets go of component pointers.
NextReset ==
    \/ Next
    \/ \E pComponent \in ResetComponents : reset(pComponent)

SpecReset == Init /\ [][NextReset]_vars

\* The caller keeps the view a getEntityNodes call returned.
NextView ==
    \/ Next
    \/ \E cmType \in ComponentTypeIds : getEntityNodes(cmType, TRUE)

SpecView == Init /\ [][NextView]_vars

\* The history of the removal marks is kept from the start.
InitMarks ==
    /\ m_entities = EmptyMap
    /\ m_componentTypes = EmptyMap
    /\ m_entitiesMarkedForRemoval = <<>>
    /\ m_nextEntityId = MaxEntityId
    /\ fault = NoFault
    /\ destroyedIds = {}
    /\ external = Components
    /\ destructorCalls = [c \in Components |-> 0]
    /\ view = NoView
    /\ marks = [recorded |-> TRUE, ids |-> {}]

SpecMarks == InitMarks /\ [][Next]_vars

(* ------------------------- state abbreviations ------------------------ *)

\* The ids of the live entities.
Live == DOMAIN m_entities

\* The entity table has an entry (entityId, cmType).
Holds(entityId, cmType) == entityId \in Live /\ cmType \in DOMAIN m_entities[entityId]

\* The component-type index has an entry (cmType, entityId).
Indexed(cmType, entityId) ==
    cmType \in DOMAIN m_componentTypes /\ entityId \in DOMAIN m_componentTypes[cmType]

\* The ids in the pending-removal list.
Pending == {m_entitiesMarkedForRemoval[i] : i \in DOMAIN m_entitiesMarkedForRemoval}

\* What a caller may pass as pComponent.
Pointers == Components \cup {nullptr}

\* The values the calls return when made in the current state.
CreateRet == CreateEntity(m_entities, m_nextEntityId).ret
DestroyRet(id, order) == DestroyEntity(m_entities, m_componentTypes, id, order).ret
AttachRet(id, c) == AttachComponent(m_entities, m_componentTypes, id, c).ret
DetachRet(id, T) == DetachComponent(m_entities, m_componentTypes, id, T).ret

\* What the reading calls return when made in the state a step leads to.
DestroyRetAfter(id, order) == DestroyEntity(m_entities', m_componentTypes', id, order).ret
GetComponentAfter(id, T) == GetComponent(m_entities', id, T)
GetEntityNodesAfter(T) == GetEntityNodes(m_componentTypes', T).ret

(* ------------------------------- claims ------------------------------- *)

\* C1: in every reachable state, for every entity id e and kind T, the entity
\* table has an entry (e, T) iff the component-type index has an entry (T, e),
\* and the two entries are the same component instance.
DualIndexConsistency ==
    \A e \in EntityIds : \A T \in ComponentTypeIds :
        /\ Holds(e, T) <=> Indexed(T, e)
        /\ Holds(e, T) => m_entities[e][T] = m_componentTypes[T][e]

\* Two live entities share the instance a1, one of them holds b1 as well.
DualIndexWitness ==
    /\ Live = {1, 2}
    /\ Holds(1, "AnonymousComponent1") /\ m_entities[1]["AnonymousComponent1"] = "a1"
    /\ Holds(2, "AnonymousComponent1") /\ m_entities[2]["AnonymousComponent1"] = "a1"
    /\ Holds(2, "AnonymousComponent2") /\ ~Holds(1, "AnonymousComponent2")
    /\ Indexed("AnonymousComponent2", 2)

\* C2: a purge step leaves the pending-removal list empty.
PurgeLeavesPendingEmpty == [][purge => m_entitiesMarkedForRemoval' = <<>>]_vars

\* C3: createEntity, called in any reachable state, returns an id other than
\* InvalidEntity while fewer than MaxEntityId ids are live, and an id it returns
\* was not live before the call and is live after it (so creations with no
\* destroy in between return pairwise distinct ids).
CreateReturnsFreshId ==
    LET r == CreateEntity(m_entities, m_nextEntityId)
    IN  /\ Cardinality(Live) < MaxEntityId => r.ret # InvalidEntity
        /\ r.ret # InvalidEntity =>
               /\ r.ret \in 1..MaxEntityId
               /\ r.ret \notin Live
               /\ DOMAIN r.entities = Live \cup {r.ret}

\* MaxEntityId creations, none destroyed since: every id is live, the cursor has
\* wrapped round to where it started, and the next createEntity returns the sentinel.
CreateWitness ==
    /\ Live = 1..MaxEntityId
    /\ destroyedIds = {}
    /\ m_nextEntityId = MaxEntityId
    /\ CreateRet = InvalidEntity

\* C4 (as stated): once destroyEntity(id) has returned true, every later
\* destroyEntity(id) call returns false, whatever step comes in between.
DestroyedIdNeverDestroyedAgain ==
    [][\A id \in destroyedIds : \A order \in IterationOrders :
           DestroyRetAfter(id, order) = FALSE]_vars

\* C4 (amended): destroyEntity(id) returns true exactly when id is live, id is
\* then no longer live, and it returns false for every id destroyed earlier that
\* no createEntity call has returned since.
DestroyTrueOncePerCreation ==
    \A id \in EntityIds : \A order \in IterationOrders :
        LET r == DestroyEntity(m_entities, m_componentTypes, id, order)
        IN  /\ r.ret = (id \in Live)
            /\ r.ret => id \notin DOMAIN r.entities
            /\ id \in destroyedIds => r.ret = FALSE

\* Every id has been created and destroyed; none has been returned again.
DestroyWitness ==
    /\ destroyedIds = 1..MaxEntityId
    /\ \A id \in destroyedIds : \A order \in IterationOrders : ~DestroyRet(id, order)

\* C5: destroyAllEntities returns true, and in the state it leads to
\* destroyEntity(id) returns false and getComponent(id, T) is null for every id,
\* and getEntityNodes(T) returns an empty mapping for every kind T.
DestroyAllLeavesNothing ==
    [][destroyAllEntities =>
           /\ DestroyAllEntities(m_entities, m_componentTypes).ret
           /\ Live' = {}
           /\ \A id \in EntityIds :
                  /\ \A order \in IterationOrders : ~DestroyRetAfter(id, order)
                  /\ \A T \in ComponentTypeIds : GetComponentAfter(id, T) = nullptr
           /\ \A T \in ComponentTypeIds : GetEntityNodesAfter(T) = EmptyMap]_vars

\* Entities were created and marked, none is live, and none went through
\* destroyEntity or purge: only destroyAllEntities leads here.
DestroyAllWitness ==
    /\ Live = {}
    /\ destroyedIds = {}
    /\ m_componentTypes = EmptyMap
    /\ Len(m_entitiesMarkedForRemoval) = MaxMarked
    /\ m_nextEntityId # MaxEntityId

\* C6: attachComponent(id, c), called in any reachable state, returns true iff
\* id is live, c is not null and the entity holds no component of c's kind.
AttachReturnsTrueIff ==
    \A id \in EntityIds : \A c \in Pointers :
        AttachRet(id, c) <=>
            /\ id \in Live
            /\ c # nullptr
            /\ ~Holds(id, TypeId(c))

\* Entity 1 holds a1: attaching a1 again or a2 of the same kind returns false,
\* attaching b1 of the other kind returns true.
AttachWitness ==
    /\ Holds(1, "AnonymousComponent1") /\ m_entities[1]["AnonymousComponent1"] = "a1"
    /\ ~AttachRet(1, "a1") /\ ~AttachRet(1, "a2") /\ AttachRet(1, "b1")
    /\ ~AttachRet(1, nullptr) /\ ~AttachRet(InvalidEntity, "b1")

\* C7: a call of attachComponent, detachComponent or destroyEntity that returns
\* false, and a createEntity that returns InvalidEntity, leaves the tables and
\* the cursor as they were and raises no fault (the pending list is no argument
\* of these functions); attachComponent and detachComponent change both tables
\* or neither.
FailedCallsChangeNothing ==
    /\ LET r == CreateEntity(m_entities, m_nextEntityId)
       IN  r.ret = InvalidEntity =>
               r.entities = m_entities /\ r.nextEntityId = m_nextEntityId
    /\ \A id \in EntityIds :
        /\ \A order \in IterationOrders :
               LET r == DestroyEntity(m_entities, m_componentTypes, id, order)
               IN  ~r.ret => /\ r.fault = NoFault
                             /\ r.entities = m_entities
                             /\ r.componentTypes = m_componentTypes
        /\ \A c \in Pointers :
               LET r == AttachComponent(m_entities, m_componentTypes, id, c)
               IN  /\ ~r.ret => /\ r.entities = m_entities
                                /\ r.componentTypes = m_componentTypes
                                /\ \A T \in ComponentTypeIds :
                                       GetComponent(r.entities, id, T) =
                                           GetComponent(m_entities, id, T)
                   /\ (r.entities = m_entities) <=> (r.componentTypes = m_componentTypes)
        /\ \A T \in ComponentTypeIds :
               LET r == DetachComponent(m_entities, m_componentTypes, id, T)
               IN  /\ ~r.ret => /\ r.fault = NoFault
                                /\ r.entities = m_entities
                                /\ r.componentTypes = m_componentTypes
                   /\ (r.entities = m_entities) <=> (r.componentTypes = m_componentTypes)

\* Every id is live and pending, entity 1 holds a1 only: createEntity returns the
\* sentinel, a duplicate attach and a detach of the missing kind return false.
FailedCallWitness ==
    /\ Live = 1..MaxEntityId
    /\ CreateRet = InvalidEntity
    /\ m_entitiesMarkedForRemoval # <<>>
    /\ Holds(1, "AnonymousComponent1") /\ m_entities[1]["AnonymousComponent1"] = "a1"
    /\ ~AttachRet(1, "a2")
    /\ ~DetachRet(1, "AnonymousComponent2")
    /\ ~DestroyRet(InvalidEntity, <<"AnonymousComponent1", "AnonymousComponent2">>)

\* A step that changes the entity table or the component-type index.
TablesChange == m_entities' # m_entities \/ m_componentTypes' # m_componentTypes

\* A step that ends entity id: destroyEntity(id), purge or destroyAllEntities.
Destroyed(id) == id \in Live /\ id \notin Live'

\* A step that is a successful detachComponent(id, T).
Detached(id, T) == DetachRet(id, T) /\ detachComponent(id, T)

\* The entity holds component c of kind T in both tables after the step.
HeldAfter(id, T, c) ==
    /\ GetComponentAfter(id, T) = c
    /\ Found(GetEntityNodesAfter(T), id)
    /\ GetEntityNodesAfter(T)[id] = c

\* C8: after a successful attachComponent(id, c) of kind T, getComponent(id, T)
\* is c and getEntityNodes(T) maps id to c; and a step from a state where that
\* is so leads to one where it is so, unless the step detaches T from id or
\* destroys id (a step that changes neither table keeps it trivially).
AttachedStaysAttached ==
    [][TablesChange => \A id \in Live : \A T \in ComponentTypeIds :
           /\ \A c \in Components :
                  (TypeId(c) = T /\ AttachRet(id, c) /\ attachComponent(id, c))
                      => HeldAfter(id, T, c)
           /\ (Holds(id, T) /\ ~HeldAfter(id, T, m_entities[id][T]))
                  => (Detached(id, T) \/ Destroyed(id))]_vars

\* Entity 2 still holds a1 and b1 after entity 1, which shared a1, was destroyed
\* and while id 2 is pending removal.
AttachedWitness ==
    /\ Live = {2}
    /\ 1 \in destroyedIds
    /\ GetComponent(m_entities, 2, "AnonymousComponent1") = "a1"
    /\ GetComponent(m_entities, 2, "AnonymousComponent2") = "b1"
    /\ Indexed("AnonymousComponent1", 2) /\ Indexed("AnonymousComponent2", 2)
    /\ 2 \in Pending

\* C9: after a successful detachComponent(id, T), getComponent(id, T) is null
\* and getEntityNodes(T) has no entry for id; after a successful
\* destroyEntity(id) that is so for every kind T.
DetachedOrDestroyedIsGone ==
    [][TablesChange => \A id \in Live :
           /\ \A T \in ComponentTypeIds :
                  Detached(id, T) =>
                      /\ GetComponentAfter(id, T) = nullptr
                      /\ ~Found(GetEntityNodesAfter(T), id)
           /\ (destroyEntity(id) /\ \E order \in IterationOrders : DestroyRet(id, order))
                  => \A T \in ComponentTypeIds :
                         /\ GetComponentAfter(id, T) = nullptr
                         /\ ~Found(GetEntityNodesAfter(T), id)]_vars

\* Entity 1 was destroyed and entity 2 lost its component of the first kind, while
\* the index still has both kinds and entity 2 keeps b1.
GoneWitness ==
    /\ Live = {2}
    /\ 1 \in destroyedIds
    /\ DOMAIN m_componentTypes = ComponentTypeIds
    /\ m_componentTypes["AnonymousComponent1"] = EmptyMap
    /\ DOMAIN m_componentTypes["AnonymousComponent2"] = {2}
    /\ GetComponent(m_entities, 2, "AnonymousComponent1") = nullptr

\* How many of purge's destroyEntity calls on id returned true.
TimesDestroyed(pending, rets, id) ==
    Cardinality({i \in DOMAIN rets : pending[i] = id /\ rets[i]})

\* C10: purge, called in any reachable state, raises no fault and leaves no
\* pending id live (a later destroyEntity on it returns false); it destroys a
\* pending id that is live exactly once, however many times the id was marked.
PurgeDestroysMarkedOnce ==
    \A order \in IterationOrders :
        LET r == Purge(m_entities, m_componentTypes, m_entitiesMarkedForRemoval, order)
        IN  /\ r.fault = NoFault
            /\ Len(r.rets) = Len(m_entitiesMarkedForRemoval)
            /\ \A id \in Pending :
                   /\ id \notin DOMAIN r.entities
                   /\ \A o \in IterationOrders :
                          ~DestroyEntity(r.entities, r.componentTypes, id, o).ret
                   /\ TimesDestroyed(m_entitiesMarkedForRemoval, r.rets, id) =
                          IF id \in Live THEN 1 ELSE 0

\* Entity 1, holding components of both kinds, was marked twice and is live:
\* purge destroys it on the first mark and gets false on the second.
PurgeWitness ==
    /\ m_entitiesMarkedForRemoval = <<1, 1>>
    /\ Holds(1, "AnonymousComponent1") /\ Holds(1, "AnonymousComponent2")
    /\ \A order \in IterationOrders :
           Purge(m_entities, m_componentTypes, m_entitiesMarkedForRemoval, order).rets
               = <<TRUE, FALSE>>

\* The registry holds c in its entity table / in its component-type index.
InEntities(c) == NodesOf(m_entities, c) # {}
InIndex(c) == NodesOf(m_componentTypes, c) # {}

\* C11: a component no live entity holds is not referred to by the index either;
\* its destructor has not run while the caller or an entity holds it, and has
\* run exactly once when neither does.
ComponentTornDownOnce ==
    \A c \in Components :
        /\ ~InEntities(c) => ~InIndex(c)
        /\ (c \in external \/ InEntities(c)) => destructorCalls[c] = 0
        /\ (c \notin external /\ ~InEntities(c)) => destructorCalls[c] = 1

\* Entity 1 was destroyed and a1, which no entity holds, was let go of and torn
\* down; b1 was let go of too but lives on in entity 2.
TornDownWitness ==
    /\ 1 \in destroyedIds
    /\ external = {"a2"}
    /\ destructorCalls["a1"] = 1
    /\ destructorCalls["b1"] = 0
    /\ GetComponent(m_entities, 2, "AnonymousComponent2") = "b1"

\* The (entity, component) pairs of the entities holding a component of kind T
\* after the step.
HoldersAfter(T) ==
    [e \in {id \in DOMAIN m_entities' : Found(m_entities'[id], T)} |-> m_entities'[e][T]]

\* The caller still holds, after the step, the view it held before it.
ViewKept == view'.cmType = view.cmType /\ view.shared

\* C12: the view getEntityNodes(T) returned points to the mapping the index has
\* for T, whose contents are the (entity, component) pairs of the entities
\* holding kind T, and it goes on doing so after every step of the registry that
\* is not destroyAllEntities (attachComponent, detachComponent, destroyEntity
\* and purge among them).
ViewIsLive ==
    [][/\ view'.shared =>
              /\ Found(m_componentTypes', view'.cmType)
              /\ m_componentTypes'[view'.cmType] = HoldersAfter(view'.cmType)
       /\ (ViewKept /\ ~destroyAllEntities) => view'.shared]_vars

\* The caller's view of the first kind shows entity 2 with a2 after entity 1 was
\* destroyed, while entity 2 is pending removal.
ViewWitness ==
    /\ view = ViewOf("AnonymousComponent1")
    /\ 1 \in destroyedIds
    /\ m_componentTypes["AnonymousComponent1"] = [e \in {2} |-> "a2"]
    /\ 2 \in Pending

NoCorruptionFault ==
    /\ fault = NoFault
    /\ \A order \in IterationOrders :
        /\ Purge(m_entities, m_componentTypes, m_entitiesMarkedForRemoval, order).fault
               = NoFault
        /\ \A id \in EntityIds :
               DestroyEntity(m_entities, m_componentTypes, id, order).fault = NoFault
    /\ \A id \in EntityIds : \A T \in ComponentTypeIds :
           DetachComponent(m_entities, m_componentTypes, id, T).fault = NoFault

\* Entity 1 holds components of both kinds, one of them shared with entity 2,
\* and is pending twice, after id 2 was destroyed and issued again.
FaultFreeWitness ==
    /\ fault = NoFault
    /\ Live = {1, 2}
    /\ destroyedIds = {}
    /\ m_nextEntityId = 1
    /\ GetComponent(m_entities, 1, "AnonymousComponent1") = "a1"
    /\ GetComponent(m_entities, 2, "AnonymousComponent1") = "a1"
    /\ Holds(1, "AnonymousComponent2")
    /\ m_entitiesMarkedForRemoval = <<1, 1>>

\* C15: in every reachable state the live ids and the cursor lie in
\* 1..MaxEntityId; InvalidEntity is neither.
IdsAndCursorInRange ==
    /\ Live \subseteq 1..MaxEntityId
    /\ InvalidEntity \notin Live
    /\ m_nextEntityId \in 1..MaxEntityId
    /\ m_nextEntityId # InvalidEntity

\* Id 1 is live and the cursor, having reached 1, wrapped to the maximum, where
\* the destroyed top id is free again.
CursorWrapWitness ==
    /\ Live = {1}
    /\ MaxEntityId \in destroyedIds
    /\ m_nextEntityId = MaxEntityId

\* C16: createEntity returns InvalidEntity exactly when every id of
\* 1..MaxEntityId is live; otherwise the id it returns is live after the call.
CreateFailsIffExhausted ==
    LET r == CreateEntity(m_entities, m_nextEntityId)
    IN  /\ r.ret = InvalidEntity <=> Live = 1..MaxEntityId
        /\ Live # 1..MaxEntityId =>
               /\ r.ret \in (1..MaxEntityId) \ Live
               /\ DOMAIN r.entities = Live \cup {r.ret}
        /\ r.ret = InvalidEntity => r.entities = m_entities

\* The id space is exhausted by an id that was destroyed and issued again.
ExhaustedWitness ==
    /\ Live = 1..MaxEntityId
    /\ m_nextEntityId = 1
    /\ CreateRet = InvalidEntity
    /\ Pending # {}

\* C17: detachComponent(id, T), called in any reachable state, returns true iff
\* id is live and holds a component of kind T; it then erases the entry (id, T)
\* from each table and nothing else, id stays live, and attachComponent of a
\* component of kind T to id returns true again.
DetachReturnsTrueIff ==
    \A id \in EntityIds : \A T \in ComponentTypeIds :
        LET r == DetachComponent(m_entities, m_componentTypes, id, T)
        IN  /\ r.ret <=> Holds(id, T)
            /\ r.ret =>
                   /\ DOMAIN r.entities = Live
                   /\ \A e \in Live :
                          /\ DOMAIN r.entities[e] =
                                 DOMAIN m_entities[e] \ (IF e = id THEN {T} ELSE {})
                          /\ \A U \in DOMAIN r.entities[e] :
                                 r.entities[e][U] = m_entities[e][U]
                   /\ DOMAIN r.componentTypes = DOMAIN m_componentTypes
                   /\ \A U \in DOMAIN m_componentTypes :
                          /\ DOMAIN r.componentTypes[U] =
                                 DOMAIN m_componentTypes[U] \ (IF U = T THEN {id} ELSE {})
                          /\ \A e \in DOMAIN r.componentTypes[U] :
                                 r.componentTypes[U][e] = m_componentTypes[U][e]
                   /\ \A c \in Components :
                          TypeId(c) = T =>
                              AttachComponent(r.entities, r.componentTypes, id, c).ret

\* Entity 1 holds b1 and a1, the latter shared with entity 2: detaching either
\* kind from entity 1 returns true, detaching the second kind from entity 2 false.
DetachWitness ==
    /\ GetComponent(m_entities, 1, "AnonymousComponent1") = "a1"
    /\ GetComponent(m_entities, 2, "AnonymousComponent1") = "a1"
    /\ DetachRet(1, "AnonymousComponent1") /\ DetachRet(1, "AnonymousComponent2")
    /\ ~DetachRet(2, "AnonymousComponent2")
    /\ ~DetachRet(InvalidEntity, "AnonymousComponent1")

\* C18: getComponent(id, T), called in any reachable state with any id and kind,
\* returns the component of kind T the live entity id holds, and a null pointer
\* if there is none; a step in which the caller gains a pointer, as it does from
\* getComponent, changes no table, list or cursor and raises no fault.
GetComponentReadsOnly ==
    /\ [](\A id \in EntityIds : \A T \in ComponentTypeIds :
              LET ret == GetComponent(m_entities, id, T)
              IN  /\ ret = IF Holds(id, T) THEN m_entities[id][T] ELSE nullptr
                  /\ ret # nullptr => TypeId(ret) = T)
    /\ [][(external' # external /\ external \subseteq external') =>
              /\ UNCHANGED <<m_entities, m_componentTypes,
                             m_entitiesMarkedForRemoval, m_nextEntityId>>
              /\ fault' = NoFault
              /\ \E id \in Live : \E T \in DOMAIN m_entities[id] :
                     external' = external \cup {m_entities[id][T]}]_vars

\* The caller let go of b1, now torn down, and of a1, which entity 2 holds and
\* getComponent hands back; id 1 was destroyed and getComponent finds nothing there.
GetComponentWitness ==
    /\ destructorCalls["b1"] = 1
    /\ external = {"a2"}
    /\ 1 \in destroyedIds
    /\ GetComponent(m_entities, 2, "AnonymousComponent1") = "a1"
    /\ GetComponent(m_entities, 2, "AnonymousComponent2") = nullptr
    /\ GetComponent(m_entities, 1, "AnonymousComponent1") = nullptr
    /\ GetComponent(m_entities, InvalidEntity, "AnonymousComponent1") = nullptr
    /\ m_entitiesMarkedForRemoval # <<>>

\* C19: markForRemoval(id), called in any reachable state, leaves the list as it
\* is when id is not live and appends id otherwise, pending already or not; a
\* step that changes the list appends one live id, which stays live, and changes
\* neither table nor the cursor.
MarkAppendsIfLive ==
    /\ [](\A id \in EntityIds :
              MarkForRemoval(m_entities, m_entitiesMarkedForRemoval, id) =
                  IF id \in Live THEN m_entitiesMarkedForRemoval \o <<id>>
                  ELSE m_entitiesMarkedForRemoval)
    /\ [][m_entitiesMarkedForRemoval' # m_entitiesMarkedForRemoval =>
              /\ Len(m_entitiesMarkedForRemoval') = Len(m_entitiesMarkedForRemoval) + 1
              /\ \E id \in Live :
                     /\ m_entitiesMarkedForRemoval' = Append(m_entitiesMarkedForRemoval, id)
                     /\ id \in DOMAIN m_entities'
              /\ UNCHANGED <<m_entities, m_componentTypes, m_nextEntityId>>
              /\ fault' = NoFault]_vars

\* Entity 2, marked twice, is live with its component and in the index; id 1,
\* destroyed, cannot be marked.
MarkWitness ==
    /\ m_entitiesMarkedForRemoval = <<2, 2>>
    /\ 1 \in destroyedIds
    /\ GetComponent(m_entities, 2, "AnonymousComponent2") = "b1"
    /\ Indexed("AnonymousComponent2", 2)
    /\ MarkForRemoval(m_entities, m_entitiesMarkedForRemoval, 1) = <<2, 2>>

\* destroyEntity called on each id of the sequence in turn, results ignored.
RECURSIVE DestroyEach(_, _, _, _)
DestroyEach(entities, componentTypes, ids, order) ==
    IF ids = <<>> THEN [entities |-> entities, componentTypes |-> componentTypes]
    ELSE LET d == DestroyEntity(entities, componentTypes, Head(ids), order)
         IN  DestroyEach(d.entities, d.componentTypes, Tail(ids), order)

\* C20: purge, called in any reachable state, leaves the two tables as calling
\* destroyEntity on each pending id in the order marked would: the live entities
\* are those that were live and not pending, with their entries, and nothing
\* else has changed; a pending id that is not live, or no longer live because an
\* earlier mark of it was processed, gets false and no fault.
PurgeIsDeferredDestroy ==
    \A order \in IterationOrders :
        LET r == Purge(m_entities, m_componentTypes, m_entitiesMarkedForRemoval, order)
            d == DestroyEach(m_entities, m_componentTypes, m_entitiesMarkedForRemoval, order)
        IN  /\ r.fault = NoFault
            /\ r.entities = d.entities
            /\ r.componentTypes = d.componentTypes
            /\ r.entities = [e \in Live \ Pending |-> m_entities[e]]
            /\ r.componentTypes =
                   [T \in DOMAIN m_componentTypes |->
                        [e \in DOMAIN m_componentTypes[T] \ Pending |->
                             m_componentTypes[T][e]]]
            /\ Len(r.rets) = Len(m_entitiesMarkedForRemoval)
            /\ \A i \in DOMAIN m_entitiesMarkedForRemoval :
                   r.rets[i] =
                       /\ m_entitiesMarkedForRemoval[i] \in Live
                       /\ \A j \in 1..(i - 1) :
                              m_entitiesMarkedForRemoval[j] # m_entitiesMarkedForRemoval[i]

\* Id 2 is pending but was destroyed directly; entity 1, pending behind it, is
\* live and shares a1 with no one: purge gets false, then true.
DeferredWitness ==
    /\ m_entitiesMarkedForRemoval = <<2, 1>>
    /\ 2 \in destroyedIds
    /\ Holds(1, "AnonymousComponent1")
    /\ \A order \in IterationOrders :
           Purge(m_entities, m_componentTypes, m_entitiesMarkedForRemoval, order).rets
               = <<FALSE, TRUE>>

\* C21: in every reachable state each operation, whatever its arguments, runs to
\* an end: the scan of createEntity is entered only with fewer than MaxEntityId
\* ids live, all of them and the cursor in 1..MaxEntityId, and exits after at
\* most as many steps down as there are live ids, on the id createEntity
\* returns; and purge makes one destroyEntity call per pending id, each over the
\* kinds the entity holds.
OperationsTerminate ==
    LET n == CreateEntityScans(m_entities, m_nextEntityId)
    IN  /\ Live \subseteq 1..MaxEntityId
        /\ m_nextEntityId \in 1..MaxEntityId
        /\ n <= Cardinality(Live)
        /\ Cardinality(Live) < MaxEntityId =>
               CreateRet = ((m_nextEntityId - 1 - n) % MaxEntityId) + 1
        /\ \A order \in IterationOrders :
               Len(Purge(m_entities, m_componentTypes,
                         m_entitiesMarkedForRemoval, order).rets)
                   = Len(m_entitiesMarkedForRemoval)

\* All ids but one are live and the cursor is on a live id with every id below
\* it live too: the scan steps down over each live id, wraps past 1 and exits.
ScanWitness ==
    /\ Cardinality(Live) = MaxEntityId - 1
    /\ m_nextEntityId \in Live
    /\ MaxEntityId \notin Live
    /\ CreateEntityScans(m_entities, m_nextEntityId) = m_nextEntityId
    /\ CreateRet = MaxEntityId

\* C22: createEntity, called in any reachable state, returns either InvalidEntity
\* or an id whose entity has no component: getComponent(id, T) is a null pointer
\* for every kind T after the call and the mapping getEntityNodes(T) returns has
\* no entry for id, whatever an earlier entity of that id held.
CreatedEntityIsEmpty ==
    LET r == CreateEntity(m_entities, m_nextEntityId)
    IN  r.ret # InvalidEntity =>
            /\ r.entities[r.ret] = EmptyMap
            /\ \A T \in ComponentTypeIds :
                   /\ GetComponent(r.entities, r.ret, T) = nullptr
                   /\ r.ret \notin DOMAIN GetEntityNodes(m_componentTypes, T).ret

\* Id 2, issued first, has been issued again while entity 1 was live (the cursor
\* is below it); the index has entries of both kinds, for entity 1 only.
CreatedEmptyWitness ==
    /\ Live = {1, 2}
    /\ m_nextEntityId = 1
    /\ m_entities[2] = EmptyMap
    /\ DOMAIN m_entities[1] = ComponentTypeIds
    /\ \A T \in ComponentTypeIds :
           /\ Found(m_componentTypes, T)
           /\ DOMAIN m_componentTypes[T] = {1}
           /\ GetComponent(m_entities, 2, T) = nullptr

\* The ids in the order the scan of createEntity tries them from cursor:
\* cursor, cursor - 1, ..., 1, MaxEntityId, MaxEntityId - 1, ..., cursor + 1.
CyclicDescending(cursor) ==
    [i \in 1..MaxEntityId |-> ((cursor - i) % MaxEntityId) + 1]

\* C23: the cursor starts at MaxEntityId; createEntity, called in any reachable
\* state with an id free, returns the first id of the cyclic descending order
\* from the cursor that is not live, and leaves the cursor one below the id, or
\* at MaxEntityId when the id is 1. So MaxEntityId is the first id issued, ids
\* are issued downward while none is destroyed, and a freed id is passed over
\* while an id before it in that order is free.
AllocationOrder ==
    /\ m_nextEntityId = MaxEntityId
    /\ [](LET r == CreateEntity(m_entities, m_nextEntityId)
              order == CyclicDescending(m_nextEntityId)
          IN  Cardinality(Live) < MaxEntityId =>
                  \E i \in 1..MaxEntityId :
                      /\ r.ret = order[i]
                      /\ order[i] \notin Live
                      /\ \A j \in 1..(i - 1) : order[j] \in Live
                      /\ r.nextEntityId = IF r.ret = 1 THEN MaxEntityId ELSE r.ret - 1
                      /\ \A k \in 1..MaxEntityId :
                             (Live = (k + 1)..MaxEntityId /\ m_nextEntityId = k) =>
                                 r.ret = k
                      /\ \A j \in 1..MaxEntityId : \A k \in (j + 1)..MaxEntityId :
                             (order[j] \notin Live /\ order[k] \in destroyedIds) =>
                                 r.ret # order[k])

\* The first entity, of id MaxEntityId, has been destroyed and nothing created
\* since: the cursor is below the freed id, and createEntity returns the free
\* id at the cursor, not the freed one.
AllocationWitness ==
    /\ Live = {}
    /\ destroyedIds = {MaxEntityId}
    /\ m_nextEntityId = MaxEntityId - 1
    /\ CreateRet = MaxEntityId - 1
    /\ CreateRet # MaxEntityId

\* C24: no operation other than purge takes an entry off the pending-removal
\* list: markForRemoval, called in any reachable state, returns the list as it
\* was or with one id appended, and a step that is not a purge step and changes
\* the list appends one id to it and changes neither table nor the cursor (so
\* every step of another operation leaves the list exactly as it was).
OnlyPurgeRemovesPending ==
    /\ [](\A id \in EntityIds :
              LET marked == MarkForRemoval(m_entities, m_entitiesMarkedForRemoval, id)
              IN  /\ Len(marked) >= Len(m_entitiesMarkedForRemoval)
                  /\ SubSeq(marked, 1, Len(m_entitiesMarkedForRemoval))
                         = m_entitiesMarkedForRemoval)
    /\ [][(m_entitiesMarkedForRemoval' # m_entitiesMarkedForRemoval /\ ~purge) =>
              /\ \E id \in EntityIds :
                     m_entitiesMarkedForRemoval' = Append(m_entitiesMarkedForRemoval, id)
              /\ UNCHANGED <<m_entities, m_componentTypes, m_nextEntityId>>]_vars

\* Entities 2 and 1 were marked in that order; entity 1 has since been destroyed
\* directly and entity 2 has had a component attached and detached: both marks
\* are still in the list.
PendingKeptWitness ==
    /\ m_entitiesMarkedForRemoval = <<2, 1>>
    /\ 1 \in destroyedIds
    /\ Live = {2}
    /\ m_entities[2] = EmptyMap
    /\ Found(m_componentTypes, "AnonymousComponent2")
    /\ ~Found(m_componentTypes, "AnonymousComponent1")
    /\ m_nextEntityId = MaxEntityId

\* The entries of an entity table, as (entity, kind, component) triples, and of
\* a component-type index, as (kind, entity, component) triples.
EntityEntries(entities) ==
    UNION {{<<e, T, entities[e][T]>> : T \in DOMAIN entities[e]} : e \in DOMAIN entities}
IndexEntries(componentTypes) ==
    UNION {{<<T, e, componentTypes[T][e]>> : e \in DOMAIN componentTypes[T]} :
               T \in DOMAIN componentTypes}

\* C25: attachComponent(id, c) of kind T and detachComponent(id, T), called in
\* any reachable state and returning true, add resp. take away the entries
\* (id, T) of the two tables and change no other entry; destroyEntity(id)
\* returning true takes away the entries of id and changes no entry of another
\* entity; none of them changes which entities are live otherwise or takes a
\* kind out of the index. So in every reachable state the mapping
\* getEntityNodes(T) returns has exactly the entities holding T, with the
\* component each holds, whatever other kinds they hold.
OperationsAreIndependent ==
    /\ \A id \in EntityIds : \A c \in Components :
           LET r == AttachComponent(m_entities, m_componentTypes, id, c)
               T == TypeId(c)
           IN  r.ret =>
                   /\ DOMAIN r.entities = Live
                   /\ DOMAIN r.componentTypes = DOMAIN m_componentTypes \cup {T}
                   /\ EntityEntries(r.entities)
                          = EntityEntries(m_entities) \cup {<<id, T, c>>}
                   /\ IndexEntries(r.componentTypes)
                          = IndexEntries(m_componentTypes) \cup {<<T, id, c>>}
                   /\ <<id, T, c>> \notin EntityEntries(m_entities)
    /\ \A id \in EntityIds : \A T \in ComponentTypeIds :
           LET r == DetachComponent(m_entities, m_componentTypes, id, T)
           IN  r.ret =>
                   /\ DOMAIN r.entities = Live
                   /\ DOMAIN r.componentTypes = DOMAIN m_componentTypes
                   /\ EntityEntries(r.entities)
                          = {x \in EntityEntries(m_entities) : <<x[1], x[2]>> # <<id, T>>}
                   /\ IndexEntries(r.componentTypes)
                          = {x \in IndexEntries(m_componentTypes) : <<x[2], x[1]>> # <<id, T>>}
    /\ \A id \in EntityIds : \A order \in IterationOrders :
           LET r == DestroyEntity(m_entities, m_componentTypes, id, order)
           IN  r.ret =>
                   /\ DOMAIN r.entities = Live \ {id}
                   /\ DOMAIN r.componentTypes = DOMAIN m_componentTypes
                   /\ EntityEntries(r.entities)
                          = {x \in EntityEntries(m_entities) : x[1] # id}
                   /\ IndexEntries(r.componentTypes)
                          = {x \in IndexEntries(m_componentTypes) : x[2] # id}
    /\ \A T \in ComponentTypeIds :
           LET nodes == GetEntityNodes(m_componentTypes, T).ret
           IN  /\ DOMAIN nodes = {e \in Live : T \in DOMAIN m_entities[e]}
               /\ \A e \in DOMAIN nodes : nodes[e] = m_entities[e][T]

\* Entity 1 holds a component of the first kind only, entity 2 one of each kind:
\* the view of the first kind has both entities, that of the second entity 2.
IndependenceWitness ==
    /\ EntityEntries(m_entities) =
           {<<1, "AnonymousComponent1", "a1">>, <<2, "AnonymousComponent1", "a2">>,
            <<2, "AnonymousComponent2", "b1">>}
    /\ DOMAIN GetEntityNodes(m_componentTypes, "AnonymousComponent1").ret = {1, 2}
    /\ DOMAIN GetEntityNodes(m_componentTypes, "AnonymousComponent2").ret = {2}
    /\ DetachRet(2, "AnonymousComponent1")
    /\ ~AttachRet(2, "a1")

\* C26: a purge step destroys only entities that markForRemoval has been called
\* for since they were created and since the purge before: no entity created
\* after the last mark naming its id, and none created after an earlier purge
\* and not marked since.
PurgeDestroysOnlyMarkedEntities ==
    [][(Live \ DOMAIN m_entities') \subseteq marks.ids \/ ~purge]_vars

\* The EntityNodes the caller reads after the step through a view that pointed
\* to the registry's mapping before it: that mapping as it is after the step
\* or, when the step erased the index entry, the object as it was, which the
\* view keeps alive and nothing has written to.
ViewNodesAfter ==
    IF view'.shared THEN m_componentTypes'[view'.cmType]
    ELSE m_componentTypes[view.cmType]

\* C27: a view the caller holds across a destroyAllEntities step has no node
\* after it, and after every step a view the caller holds is the mapping a new
\* getEntityNodes call for its kind returns (so that a component attached later
\* shows in it).
ViewInStepAfterDestroyAll ==
    [][/\ (ViewKept /\ destroyAllEntities) => ViewNodesAfter = EmptyMap
       /\ view'.cmType # "none" => view' = ViewOf(view'.cmType)]_vars

====
